---- MODULE Spec2Model ----
(***************************************************************************)
(* Model of the sitemap crawler of src/src/index.ts: main() fetches the    *)
(* URL list, optionally calls shuffle, copies the list into urlQueue and   *)
(* starts concurrencyLimit workers on the one event loop.  Every action of *)
(* the model is one run-to-completion segment of the code, i.e. the code   *)
(* between two awaits; segments of different workers interleave freely.    *)
(***************************************************************************)
EXTENDS Integers, Sequences, FiniteSets, TLC

\* ---------------------------------------------------------------- bounds
MaxUrls == 2        \* longest sitemap explored
MaxConc == 2        \* largest concurrency limit explored
MaxReports == 2     \* progress reports followed in the run on the long sitemap

\* ------------------------------------------------------------ value sets
\* <loc> values of the sitemap; "" is what xml2js yields for an empty <loc>
UrlValues == {"", "a", "b"}

\* The value of a local that holds nothing (JavaScript undefined).
Undefined == "undefined"

\* The reply of a GET that has not settled.
Pending == -1

\* What the network gives for a GET: a status code, or no HTTP response.
NoResponse == 0
Replies == {200, 201, 404, NoResponse}

RECURSIVE SeqsUpTo(_, _)
SeqsUpTo(S, n) ==
  IF n = 0 THEN {<<>>}
  ELSE LET shorter == SeqsUpTo(S, n - 1)
       IN shorter \cup {Append(s, x) : s \in {t \in shorter : Len(t) = n - 1}, x \in S}

UrlLists == SeqsUpTo(UrlValues, MaxUrls)

\* Worker slots: one more than the largest limit, so that a launch loop
\* running one iteration too far has a slot to start.
Slots == 0..MaxConc

VARIABLES
  mainpc,           \* where main() is suspended
  prompt,           \* the question askConfigurations is waiting on
  answer,           \* what the ask() of askConfigurations last resolved with
  requestDelay,     \* Number(requestDelay)
  concurrencyLimit, \* Number(concurrencyLimit)
  traversalOrder,
  input,            \* the list fetchSitemap returned
  urls,             \* main's array `urls`
  shuffled,         \* the value the call shuffle(urls) returned, while main's segment runs (else <<>>)
  total,
  processed,
  statusCounts,
  urlQueue,
  i,                \* the launch loop's counter
  isPaused,
  non200Urls,
  parsedUrls,
  pc,               \* per worker: idle, request, validated, delay, pausewait, done
  url,              \* per worker: its local `url`
  nextUrls,         \* per worker: its local `nextUrls`
  reply,            \* per worker: what its GET got
  result,           \* per worker: its local `result`
  popped,           \* every value urlQueue.shift() returned, in order
  calls,            \* every argument validateURL was called with, in order
  progress,         \* the arguments of the last updateProgress call
  saved,            \* what saveResults wrote
  errorLogged       \* main().catch ran

vars == <<mainpc, prompt, answer, requestDelay, concurrencyLimit, traversalOrder, input, urls, shuffled, total,
          processed, statusCounts, urlQueue, i, isPaused, non200Urls,
          parsedUrls, pc, url, nextUrls, reply, result, popped, calls, progress,
          saved, errorLogged>>

askVars == <<prompt, answer, requestDelay>>
mainVars == <<askVars, concurrencyLimit, traversalOrder, input, urls, shuffled, total>>
workerLocals == <<url, nextUrls, reply, result>>

\* ------------------------------------------------------- pure functions

\* What the operator may type at the three prompts that configure the pool
\* (the sitemap URL prompt before them decides nothing here).
LimitAnswers == {ToString(n) : n \in (0..MaxConc) \cup {15}} \cup {"abc"}
DelayAnswers == {"250", "251", "abc"}
OrderAnswers == {"random", "sequential", "shuffled", ""}

\* Number(input): the numerals typed convert to their numbers, anything else
\* to NaN, for which every comparison of the validators is false.
AnswerNumbers == (0..MaxConc) \cup {15, 250, 251}
IsNumeric(str) == \E n \in AnswerNumbers : ToString(n) = str
NumberOf(str) == CHOOSE n \in AnswerNumbers : ToString(n) = str

\* ask: answer || String(def)
Ask(typed, def) == IF typed = "" THEN def ELSE typed

\* saveResults.toLowerCase(), on the answers typed there
ToLowerCase(str) == IF str = "Y" THEN "y" ELSE str

\* validators of askConfigurations
ConcurrencyValidator(n) == n > 0 /\ n < 15
DelayValidator(n) == n > 250
TraversalOrders == {"random", "sequential"}

Swap(array, a, b) ==
  [array EXCEPT ![a] = array[b], ![b] = array[a]]

\* The loop of shuffle from a given currentIndex on; randomIndex ranges over
\* the values Math.floor(Math.random() * currentIndex) can take.  Positions
\* are 1-based here, so position currentIndex is newArray[currentIndex - 1].
RECURSIVE ShuffleFrom(_, _)
ShuffleFrom(newArray, currentIndex) ==
  IF currentIndex = 0 THEN {newArray}
  ELSE UNION { ShuffleFrom(Swap(newArray, currentIndex, randomIndex + 1), currentIndex - 1)
               : randomIndex \in 0..(currentIndex - 1) }

\* shuffle copies its argument and returns the shuffled copy: the set of the
\* values one call can return.
shuffle(array) == ShuffleFrom(array, Len(array))

\* The value of `urls` after line 219: the call's result is dropped and the
\* argument is not written, so the array stays as fetched.
UrlsAfterShuffle(array, returned) == array

\* Mutant of QueueShift: removes two entries and returns the first.
QueueShiftDropsTwo(q) ==
  [value |-> Head(q), rest |-> IF Len(q) > 1 THEN Tail(Tail(q)) ELSE Tail(q)]

\* Mutant of QueueShift: takes from the end, as urlQueue.pop() would.
QueuePop(q) == [value |-> q[Len(q)], rest |-> SubSeq(q, 1, Len(q) - 1)]

\* urlQueue.shift(): the head and what is left
QueueShift(q) == [value |-> Head(q), rest |-> Tail(q)]

\* urlQueue.slice(0, 5)
PreviewLen == 5

\* Mutant of QueueSlice: urlQueue.slice(0, 6)
QueueSliceSix(q) == SubSeq(q, 1, IF Len(q) < PreviewLen + 1 THEN Len(q) ELSE PreviewLen + 1)

QueueSlice(q) == SubSeq(q, 1, IF Len(q) < PreviewLen THEN Len(q) ELSE PreviewLen)

\* if (url): the empty string is falsy
Truthy(u) == u # ""

\* axios.get with the default validateStatus resolves for 2xx and rejects
\* otherwise, the error carrying the response when there was one.
AxiosResolves(r) == r # NoResponse /\ r >= 200 /\ r < 300

\* error.response?.status || 500
FailureDefault == 500
CatchStatus(r) == IF r = NoResponse \/ r = 0 THEN FailureDefault ELSE r

URLStatus(u, s) == [url |-> u, status |-> s]

\* The values of `result`, of the reporter's arguments and of the written
\* files while there are none.
NoResult == URLStatus(Undefined, Pending)
NoProgress == [processed |-> 0, total |-> 0, url |-> Undefined, status |-> Pending,
               statusCounts |-> <<>>, urls |-> <<>>]
NotSaved == [written |-> FALSE, non200Urls |-> <<>>, parsedUrls |-> <<>>]

\* Mutant of ValidateURL: the catch path appends to parsedUrls as well.
ValidateURLBothLists(u, r, non200, parsed) ==
  IF AxiosResolves(r)
  THEN [non200Urls |-> IF r # 200 THEN Append(non200, URLStatus(u, r)) ELSE non200,
        parsedUrls |-> Append(parsed, URLStatus(u, r)),
        result     |-> URLStatus(u, r)]
  ELSE [non200Urls |-> Append(non200, URLStatus(u, CatchStatus(r))),
        parsedUrls |-> Append(parsed, URLStatus(u, CatchStatus(r))),
        result     |-> URLStatus(u, CatchStatus(r))]

\* Mutant of ValidateURL: the try path never appends to non200Urls.
ValidateURLNoNon200OnSuccess(u, r, non200, parsed) ==
  IF AxiosResolves(r)
  THEN [non200Urls |-> non200,
        parsedUrls |-> Append(parsed, URLStatus(u, r)),
        result     |-> URLStatus(u, r)]
  ELSE [non200Urls |-> Append(non200, URLStatus(u, CatchStatus(r))),
        parsedUrls |-> parsed,
        result     |-> URLStatus(u, CatchStatus(r))]

\* validateURL from the point its GET settles: the two lists after it and
\* the record it returns.
ValidateURL(u, r, non200, parsed) ==
  IF AxiosResolves(r)
  THEN [non200Urls |-> IF r # 200 THEN Append(non200, URLStatus(u, r)) ELSE non200,
        parsedUrls |-> Append(parsed, URLStatus(u, r)),
        result     |-> URLStatus(u, r)]
  ELSE [non200Urls |-> Append(non200, URLStatus(u, CatchStatus(r))),
        parsedUrls |-> parsed,
        result     |-> URLStatus(u, CatchStatus(r))]

\* statusCounts[s] || 0
Count(counts, s) == IF s \in DOMAIN counts THEN counts[s] ELSE 0

\* Mutant of Increment: statusCounts[s] = (statusCounts[s] || 1)
IncrementOnce(counts, s) ==
  [k \in DOMAIN counts \cup {s} |-> IF k = s THEN (IF Count(counts, s) = 0 THEN 1 ELSE counts[s])
                                    ELSE counts[k]]

\* statusCounts[s] = (statusCounts[s] || 0) + 1
Increment(counts, s) ==
  [k \in DOMAIN counts \cup {s} |-> IF k = s THEN Count(counts, s) + 1 ELSE counts[k]]

\* Mutant of WorkerLoop: the loop without its isPaused test.
RECURSIVE WorkerLoopIgnoringPause(_, _, _)
WorkerLoopIgnoringPause(q, paused, acc) ==
  IF ~(Len(q) > 0)
  THEN [pc |-> "done", url |-> Undefined, nextUrls |-> <<>>, queue |-> q, shifted |-> acc]
  ELSE LET s == QueueShift(q)
       IN IF Truthy(s.value)
          THEN [pc |-> "request", url |-> s.value, nextUrls |-> QueueSlice(s.rest),
                queue |-> s.rest, shifted |-> Append(acc, s.value)]
          ELSE WorkerLoopIgnoringPause(s.rest, paused, Append(acc, s.value))

\* Mutant of WorkerLoop: on an empty queue the worker waits for more work
\* instead of returning.
RECURSIVE WorkerLoopNeverEnds(_, _, _)
WorkerLoopNeverEnds(q, paused, acc) ==
  IF ~(Len(q) > 0)
  THEN [pc |-> "pausewait", url |-> Undefined, nextUrls |-> <<>>, queue |-> q, shifted |-> acc]
  ELSE IF paused
  THEN [pc |-> "pausewait", url |-> Undefined, nextUrls |-> <<>>, queue |-> q, shifted |-> acc]
  ELSE LET s == QueueShift(q)
       IN IF Truthy(s.value)
          THEN [pc |-> "request", url |-> s.value, nextUrls |-> QueueSlice(s.rest),
                queue |-> s.rest, shifted |-> Append(acc, s.value)]
          ELSE WorkerLoopNeverEnds(s.rest, paused, Append(acc, s.value))

\* The worker's loop from its head to its next await or its end, on queue q
\* with flag paused; acc collects what it shifts on the way.  An entry that
\* is falsy is shifted and skipped without an await.
RECURSIVE WorkerLoop(_, _, _)
WorkerLoop(q, paused, acc) ==
  IF ~(Len(q) > 0)
  THEN [pc |-> "done", url |-> Undefined, nextUrls |-> <<>>, queue |-> q, shifted |-> acc]
  ELSE IF paused
  THEN [pc |-> "pausewait", url |-> Undefined, nextUrls |-> <<>>, queue |-> q, shifted |-> acc]
  ELSE LET s == QueueShift(q)
       IN IF Truthy(s.value)
          THEN [pc |-> "request", url |-> s.value, nextUrls |-> QueueSlice(s.rest),
                queue |-> s.rest, shifted |-> Append(acc, s.value)]
          ELSE WorkerLoop(s.rest, paused, Append(acc, s.value))

\* Mutant of LaunchCond: i <= Number(concurrencyLimit)
LaunchCondInclusive(n, limit) == n <= limit

\* for (let i = 0; i < Number(concurrencyLimit); i++)
LaunchCond(n, limit) == n < limit

\* ----------------------------------------------------------------- state

Init ==
  /\ mainpc = "ask"
  /\ prompt = "concurrencyLimit"
  /\ answer = ""
  /\ requestDelay = 0
  /\ concurrencyLimit = 0
  /\ traversalOrder = Undefined
  /\ input = <<>>
  /\ urls = <<>>
  /\ shuffled = <<>>
  /\ total = 0
  /\ processed = 0
  /\ statusCounts = <<>>
  /\ urlQueue = <<>>
  /\ i = 0
  /\ isPaused = FALSE
  /\ non200Urls = <<>>
  /\ parsedUrls = <<>>
  /\ pc = [w \in Slots |-> "idle"]
  /\ url = [w \in Slots |-> Undefined]
  /\ nextUrls = [w \in Slots |-> <<>>]
  /\ reply = [w \in Slots |-> Pending]
  /\ result = [w \in Slots |-> NoResult]
  /\ popped = <<>>
  /\ calls = <<>>
  /\ progress = NoProgress
  /\ saved = NotSaved
  /\ errorLogged = FALSE

\* --------------------------------------------------------------- actions

\* One pass of worker w from the head of its loop to its next await (the
\* GET of validateURL, or the paused wait) or to its end.
EnterLoop(w) ==
  LET r == WorkerLoop(urlQueue, isPaused, <<>>)
  IN /\ pc' = [pc EXCEPT ![w] = r.pc]
     /\ url' = [url EXCEPT ![w] = r.url]
     /\ nextUrls' = [nextUrls EXCEPT ![w] = r.nextUrls]
     /\ reply' = [reply EXCEPT ![w] = Pending]
     /\ result' = [result EXCEPT ![w] = NoResult]
     /\ urlQueue' = r.queue
     /\ popped' = popped \o r.shifted
     /\ calls' = IF r.pc = "request" THEN Append(calls, r.url) ELSE calls

\* validateAsk for the concurrency limit: the answer is taken when the
\* validator accepts it, otherwise the same question is asked again.
AskConcurrencyLimit ==
  /\ mainpc = "ask"
  /\ prompt = "concurrencyLimit"
  /\ \E typed \in LimitAnswers :
        LET given == Ask(typed, "5")
        IN /\ answer' = given
           /\ IF IsNumeric(given) /\ ConcurrencyValidator(NumberOf(given))
              THEN /\ concurrencyLimit' = NumberOf(given)
                   /\ prompt' = "requestDelay"
              ELSE UNCHANGED <<concurrencyLimit, prompt>>
  /\ UNCHANGED <<mainpc, requestDelay, traversalOrder, input, urls, shuffled, total,
                 processed, statusCounts, urlQueue, i, isPaused, non200Urls, parsedUrls,
                 pc, workerLocals, popped, calls, progress, saved, errorLogged>>

\* validateAsk for the request delay.
AskRequestDelay ==
  /\ mainpc = "ask"
  /\ prompt = "requestDelay"
  /\ \E typed \in DelayAnswers :
        LET given == Ask(typed, "1000")
        IN /\ answer' = given
           /\ IF IsNumeric(given) /\ DelayValidator(NumberOf(given))
              THEN /\ requestDelay' = NumberOf(given)
                   /\ prompt' = "traversalOrder"
              ELSE UNCHANGED <<requestDelay, prompt>>
  /\ UNCHANGED <<mainpc, concurrencyLimit, traversalOrder, input, urls, shuffled, total,
                 processed, statusCounts, urlQueue, i, isPaused, non200Urls, parsedUrls,
                 pc, workerLocals, popped, calls, progress, saved, errorLogged>>

\* validateAsk for the traversal order; with it askConfigurations returns.
AskTraversalOrder ==
  /\ mainpc = "ask"
  /\ prompt = "traversalOrder"
  /\ \E typed \in OrderAnswers :
        LET given == Ask(typed, "sequential")
        IN /\ answer' = given
           /\ IF given \in TraversalOrders
              THEN /\ traversalOrder' = given
                   /\ prompt' = "none"
                   /\ mainpc' = "fetch"
              ELSE UNCHANGED <<traversalOrder, prompt, mainpc>>
  /\ UNCHANGED <<requestDelay, concurrencyLimit, input, urls, shuffled, total,
                 processed, statusCounts, urlQueue, i, isPaused, non200Urls, parsedUrls,
                 pc, workerLocals, popped, calls, progress, saved, errorLogged>>

\* askConfigurations: its three prompts in turn.
AskConfigurations ==
  \/ AskConcurrencyLimit
  \/ AskRequestDelay
  \/ AskTraversalOrder

\* fetchSitemap resolves with the <loc> values of the sitemap.
FetchSitemap ==
  /\ mainpc = "fetch"
  /\ \E list \in UrlLists :
        /\ input' = list
        /\ urls' = list
  /\ mainpc' = "setup"
  /\ UNCHANGED <<askVars, concurrencyLimit, traversalOrder, shuffled, total, processed,
                 statusCounts, urlQueue, i, isPaused, non200Urls, parsedUrls,
                 pc, workerLocals, popped, calls, progress, saved, errorLogged>>

\* Mutant of FetchSitemapFails: the error is logged and the run goes on with
\* the empty list.
FetchSitemapFailsGoesOn ==
  /\ mainpc = "fetch"
  /\ errorLogged' = TRUE
  /\ mainpc' = "setup"
  /\ UNCHANGED <<mainVars, processed, statusCounts, urlQueue, i, isPaused,
                 non200Urls, parsedUrls, pc, workerLocals, popped, calls, progress, saved>>

\* fetchSitemap rejects (the GET or the parse failed): main rejects, the
\* catch handler logs the error and the finally handler will exit.
FetchSitemapFails ==
  /\ mainpc = "fetch"
  /\ errorLogged' = TRUE
  /\ mainpc' = "exit"
  /\ UNCHANGED <<mainVars, processed, statusCounts, urlQueue, i, isPaused,
                 non200Urls, parsedUrls, pc, workerLocals, popped, calls, progress, saved>>

\* Lines 219-226: the shuffle call, total, processed, statusCounts, urlQueue.
Setup ==
  /\ mainpc = "setup"
  /\ IF traversalOrder = "random"
     THEN \E returned \in shuffle(urls) :
             /\ shuffled' = returned
             /\ urls' = UrlsAfterShuffle(urls, returned)
     ELSE UNCHANGED <<shuffled, urls>>
  /\ total' = Len(urls')
  /\ processed' = 0
  /\ statusCounts' = <<>>
  /\ urlQueue' = urls'
  /\ i' = 0
  /\ mainpc' = "launch"
  /\ UNCHANGED <<askVars, concurrencyLimit, traversalOrder, input, isPaused, non200Urls,
                 parsedUrls, pc, workerLocals, popped, calls, progress, saved,
                 errorLogged>>

\* One iteration of the launch loop: worker() runs to its first await.
Launch ==
  /\ mainpc = "launch"
  /\ LaunchCond(i, concurrencyLimit)
  /\ EnterLoop(i)
  /\ i' = i + 1
  /\ UNCHANGED <<mainpc, mainVars, processed, statusCounts, isPaused,
                 non200Urls, parsedUrls, progress, saved, errorLogged>>

\* The launch loop ends and main awaits Promise.all(workers).  The value the
\* shuffle call returned was bound to nothing and is gone by now.
LaunchEnd ==
  /\ mainpc = "launch"
  /\ ~LaunchCond(i, concurrencyLimit)
  /\ mainpc' = "join"
  /\ shuffled' = <<>>
  /\ UNCHANGED <<askVars, concurrencyLimit, traversalOrder, input, urls, total, processed,
                 statusCounts, urlQueue, i, isPaused, non200Urls, parsedUrls,
                 pc, workerLocals, popped, calls, progress, saved, errorLogged>>

\* Main and the workers are all suspended at an await: only then can a timer,
\* a response or an operator's key press be handled.
EventLoopFree == mainpc \notin {"setup", "launch"}

\* Mutant of ValidateReturn: validateURL without its catch block, so a
\* rejected GET rejects the worker and with it Promise.all and main.
ValidateReturnThrows(w) ==
  /\ EventLoopFree
  /\ pc[w] = "request"
  /\ \E r \in Replies :
        IF AxiosResolves(r)
        THEN LET v == ValidateURL(url[w], r, non200Urls, parsedUrls)
             IN /\ reply' = [reply EXCEPT ![w] = r]
                /\ non200Urls' = v.non200Urls
                /\ parsedUrls' = v.parsedUrls
                /\ result' = [result EXCEPT ![w] = v.result]
                /\ pc' = [pc EXCEPT ![w] = "validated"]
                /\ UNCHANGED <<mainpc, errorLogged>>
        ELSE /\ reply' = [reply EXCEPT ![w] = r]
             /\ pc' = [pc EXCEPT ![w] = "done"]
             /\ mainpc' = "exit"
             /\ errorLogged' = TRUE
             /\ UNCHANGED <<non200Urls, parsedUrls, result>>
  /\ UNCHANGED <<mainVars, processed, statusCounts, urlQueue, i, isPaused,
                 url, nextUrls, popped, calls, progress, saved>>

\* The GET of worker w settles and validateURL runs to its return.
ValidateReturn(w) ==
  /\ EventLoopFree
  /\ pc[w] = "request"
  /\ \E r \in Replies :
        LET v == ValidateURL(url[w], r, non200Urls, parsedUrls)
        IN /\ reply' = [reply EXCEPT ![w] = r]
           /\ non200Urls' = v.non200Urls
           /\ parsedUrls' = v.parsedUrls
           /\ result' = [result EXCEPT ![w] = v.result]
  /\ pc' = [pc EXCEPT ![w] = "validated"]
  /\ UNCHANGED <<mainpc, mainVars, processed, statusCounts, urlQueue, i, isPaused,
                 url, nextUrls, popped, calls, progress, saved, errorLogged>>

\* Mutant of Account: updateProgress is called before processed++ and the
\* histogram update.
AccountReportsFirst(w) ==
  /\ EventLoopFree
  /\ pc[w] = "validated"
  /\ processed' = processed + 1
  /\ statusCounts' = Increment(statusCounts, result[w].status)
  /\ progress' = [processed |-> processed, total |-> total, url |-> url[w],
                  status |-> result[w].status, statusCounts |-> statusCounts,
                  urls |-> nextUrls[w]]
  /\ pc' = [pc EXCEPT ![w] = "delay"]
  /\ url' = [url EXCEPT ![w] = Undefined]
  /\ nextUrls' = [nextUrls EXCEPT ![w] = <<>>]
  /\ reply' = [reply EXCEPT ![w] = Pending]
  /\ result' = [result EXCEPT ![w] = NoResult]
  /\ UNCHANGED <<mainpc, mainVars, urlQueue, i, isPaused, non200Urls,
                 parsedUrls, popped, calls, saved, errorLogged>>

\* Lines 239-249: worker w resumes after validateURL, counts the result,
\* reports progress and starts its request delay.  The locals of the
\* iteration are not read again and are forgotten here.
Account(w) ==
  /\ EventLoopFree
  /\ pc[w] = "validated"
  /\ processed' = processed + 1
  /\ statusCounts' = Increment(statusCounts, result[w].status)
  /\ progress' = [processed |-> processed', total |-> total, url |-> url[w],
                  status |-> result[w].status, statusCounts |-> statusCounts',
                  urls |-> nextUrls[w]]
  /\ pc' = [pc EXCEPT ![w] = "delay"]
  /\ url' = [url EXCEPT ![w] = Undefined]
  /\ nextUrls' = [nextUrls EXCEPT ![w] = <<>>]
  /\ reply' = [reply EXCEPT ![w] = Pending]
  /\ result' = [result EXCEPT ![w] = NoResult]
  /\ UNCHANGED <<mainpc, mainVars, urlQueue, i, isPaused, non200Urls,
                 parsedUrls, popped, calls, saved, errorLogged>>

\* The request delay of worker w is over: back to the head of the loop.
DelayElapsed(w) ==
  /\ EventLoopFree
  /\ pc[w] = "delay"
  /\ EnterLoop(w)
  /\ UNCHANGED <<mainpc, mainVars, processed, statusCounts, i, isPaused,
                 non200Urls, parsedUrls, progress, saved, errorLogged>>

\* The 1000 ms paused wait of worker w is over: back to the head of the loop.
PauseWaitElapsed(w) ==
  /\ EventLoopFree
  /\ pc[w] = "pausewait"
  /\ EnterLoop(w)
  /\ UNCHANGED <<mainpc, mainVars, processed, statusCounts, i, isPaused,
                 non200Urls, parsedUrls, progress, saved, errorLogged>>

\* The operator control sets or clears the pause flag: before the pool starts
\* (the workers then start paused) or while it runs.  The flag is read by the
\* workers only, so setting it at other times changes nothing.
SetPaused(b) ==
  /\ mainpc \in {"fetch", "join"}
  /\ isPaused # b
  /\ isPaused' = b
  /\ UNCHANGED <<mainpc, mainVars, processed, statusCounts, urlQueue, i, non200Urls,
                 parsedUrls, pc, workerLocals, popped, calls, progress, saved,
                 errorLogged>>

Launched == {w \in Slots : pc[w] # "idle"}

\* Mutant of Join: Promise.race(workers), resolved by the first worker that
\* returns.
JoinRace ==
  /\ mainpc = "join"
  /\ \E w \in Launched : pc[w] = "done"
  /\ mainpc' = "settle"
  /\ UNCHANGED <<mainVars, processed, statusCounts, urlQueue, i, isPaused,
                 non200Urls, parsedUrls, pc, workerLocals, popped, calls, progress,
                 saved, errorLogged>>

\* Promise.all(workers) resolves: every worker started has returned.
Join ==
  /\ mainpc = "join"
  /\ \A w \in Launched : pc[w] = "done"
  /\ mainpc' = "settle"
  /\ UNCHANGED <<mainVars, processed, statusCounts, urlQueue, i, isPaused,
                 non200Urls, parsedUrls, pc, workerLocals, popped, calls, progress,
                 saved, errorLogged>>

\* sleep(2500) is over.
Settle ==
  /\ mainpc = "settle"
  /\ mainpc' = "save"
  /\ UNCHANGED <<mainVars, processed, statusCounts, urlQueue, i, isPaused,
                 non200Urls, parsedUrls, pc, workerLocals, popped, calls, progress,
                 saved, errorLogged>>

\* saveResults: on "y", "Y" or the default both lists are written, otherwise
\* nothing is.
SaveResults ==
  /\ mainpc = "save"
  /\ \E typed \in {"y", "n", ""} :
        saved' = IF ToLowerCase(Ask(typed, "Y")) = "y"
                 THEN [written |-> TRUE, non200Urls |-> non200Urls,
                       parsedUrls |-> parsedUrls]
                 ELSE NotSaved
  /\ mainpc' = "exit"
  /\ UNCHANGED <<mainVars, processed, statusCounts, urlQueue, i, isPaused,
                 non200Urls, parsedUrls, pc, workerLocals, popped, calls, progress,
                 errorLogged>>

\* exit(): process.exit()
Exit ==
  /\ mainpc = "exit"
  /\ mainpc' = "exited"
  /\ UNCHANGED <<mainVars, processed, statusCounts, urlQueue, i, isPaused,
                 non200Urls, parsedUrls, pc, workerLocals, popped, calls, progress,
                 saved, errorLogged>>

Next ==
  \/ AskConfigurations
  \/ FetchSitemap
  \/ FetchSitemapFails
  \/ Setup
  \/ Launch
  \/ LaunchEnd
  \/ \E w \in Slots : ValidateReturn(w)
  \/ \E w \in Slots : Account(w)
  \/ \E w \in Slots : DelayElapsed(w)
  \/ \E w \in Slots : PauseWaitElapsed(w)
  \/ \E b \in BOOLEAN : SetPaused(b)
  \/ Join
  \/ Settle
  \/ SaveResults
  \/ Exit

Spec == Init /\ [][Next]_vars

\* The event loop runs every continuation that is ready: main's synchronous
\* segment goes on, a timer that was set fires, a GET settles (axios resolves
\* or rejects), and Promise.all resolves once every worker has returned.
\* Nothing is assumed of the operator who sets and clears isPaused.
Fairness ==
  /\ WF_vars(Setup)
  /\ WF_vars(Launch)
  /\ WF_vars(LaunchEnd)
  /\ WF_vars(Join)
  /\ \A w \in Slots : WF_vars(ValidateReturn(w))
  /\ \A w \in Slots : WF_vars(Account(w))
  /\ \A w \in Slots : WF_vars(DelayElapsed(w))
  /\ \A w \in Slots : WF_vars(PauseWaitElapsed(w))

FairSpec == Spec /\ Fairness

\* A run on a sitemap longer than the preview: seven distinct URLs, two
\* workers, sequential order, taken from the point fetchSitemap has resolved.
LongUrls == <<"u1", "u2", "u3", "u4", "u5", "u6", "u7">>

LongInit ==
  /\ mainpc = "setup"
  /\ prompt = "none"
  /\ answer = "sequential"
  /\ requestDelay = 251
  /\ concurrencyLimit = 2
  /\ traversalOrder = "sequential"
  /\ input = LongUrls
  /\ urls = LongUrls
  /\ shuffled = <<>>
  /\ total = 0
  /\ processed = 0
  /\ statusCounts = <<>>
  /\ urlQueue = <<>>
  /\ i = 0
  /\ isPaused = FALSE
  /\ non200Urls = <<>>
  /\ parsedUrls = <<>>
  /\ pc = [w \in Slots |-> "idle"]
  /\ url = [w \in Slots |-> Undefined]
  /\ nextUrls = [w \in Slots |-> <<>>]
  /\ reply = [w \in Slots |-> Pending]
  /\ result = [w \in Slots |-> NoResult]
  /\ popped = <<>>
  /\ calls = <<>>
  /\ progress = NoProgress
  /\ saved = NotSaved
  /\ errorLogged = FALSE

\* The run is followed up to its first MaxReports progress reports.
LongNext ==
  \/ Setup
  \/ Launch
  \/ LaunchEnd
  \/ processed < MaxReports /\ \E w \in Slots : ValidateReturn(w)
  \/ processed < MaxReports /\ \E w \in Slots : Account(w)
  \/ processed < MaxReports /\ \E w \in Slots : DelayElapsed(w)

LongSpec == LongInit /\ [][LongNext]_vars

\* ------------------------------------------------------------ properties

CountIn(s, x) == Cardinality({k \in DOMAIN s : s[k] = x})
SameBag(s, t) == \A x \in UrlValues : CountIn(s, x) = CountIn(t, x)

RECURSIVE SumOver(_, _)
SumOver(counts, keys) ==
  IF keys = {} THEN 0
  ELSE LET k == CHOOSE x \in keys : TRUE
       IN counts[k] + SumOver(counts, keys \ {k})

\* The queue has been filled from the fetched list (line 224 has run).
PoolStarted == ~errorLogged /\ mainpc \notin {"ask", "fetch", "setup"}

\* Every worker of the pool has been started and has returned.
WorkersFinished ==
  /\ ~errorLogged
  /\ mainpc \in {"join", "settle", "save", "exit", "exited"}
  /\ \A w \in 0..(concurrencyLimit - 1) : pc[w] = "done"

\* Workers holding a URL that is shifted but not yet counted as processed.
InFlight == {w \in Slots : pc[w] \in {"request", "validated"}}

\* C1: when all workers have finished, processed equals the number of input
\* URLs and the queue is empty.
C1_ProcessedEqualsInput ==
  WorkersFinished => (processed = Len(input) /\ urlQueue = <<>>)

\* C2: every input URL gets exactly one validateURL call: never more calls
\* for a URL than the input holds of it, and at the end of the run as many.
C2_ExactlyOneValidation ==
  /\ PoolStarted => \A u \in UrlValues : CountIn(calls, u) <= CountIn(input, u)
  /\ WorkersFinished => SameBag(calls, input)

\* C3: the URLs shifted by all workers together plus the URLs still queued
\* are the input multiset, and every URL a worker holds is one shifted for
\* it alone: the calls not yet counted are exactly those the workers hold.
C3_PopConservesUrls ==
  PoolStarted =>
    /\ SameBag(popped \o urlQueue, input)
    /\ Len(popped) + Len(urlQueue) = Len(input)
    /\ Len(calls) = processed + Cardinality(InFlight)
    /\ \A u \in UrlValues :
         Cardinality({w \in InFlight : url[w] = u}) <= CountIn(popped, u)

C3_Witness ==
  /\ concurrencyLimit = 2
  /\ Cardinality(InFlight) = 2
  /\ url[0] = url[1]
  /\ popped = <<"a", "a">>

\* C4: a GET that yields an HTTP response, whatever its code, appends the
\* record to parsedUrls, and to non200Urls as well exactly when the code is
\* not 200.
C4_EveryResponseInAllRecords ==
  [][\A w \in Slots :
       (pc[w] = "request" /\ pc'[w] = "validated" /\ reply'[w] # NoResponse) =>
          /\ parsedUrls' = Append(parsedUrls, URLStatus(url[w], reply'[w]))
          /\ non200Urls' = IF reply'[w] # 200
                           THEN Append(non200Urls, URLStatus(url[w], reply'[w]))
                           ELSE non200Urls]_vars

\* C5: a GET that fails appends its record to non200Urls only, with status
\* 500 when there was no response and with the response's code when the error
\* carries one; parsedUrls never gets a record of a failed GET.
C5_FailureOnlyInNon200 ==
  /\ [][\A w \in Slots :
          (pc[w] = "request" /\ pc'[w] = "validated" /\ ~AxiosResolves(reply'[w])) =>
             /\ parsedUrls' = parsedUrls
             /\ non200Urls' =
                  Append(non200Urls,
                         URLStatus(url[w], IF reply'[w] = NoResponse THEN 500 ELSE reply'[w]))
             /\ result'[w] = non200Urls'[Len(non200Urls')]]_vars
  /\ [](\A k \in DOMAIN parsedUrls : AxiosResolves(parsedUrls[k].status))

C5_Witness ==
  \E w \in Slots :
    /\ pc[w] = "validated"
    /\ reply[w] = NoResponse
    /\ result[w] = URLStatus(url[w], 500)
    /\ Len(non200Urls) = 1
    /\ non200Urls[1] = result[w]
    /\ parsedUrls = <<URLStatus("a", 200)>>

\* C6: in random mode the queue is filled in the order the shuffle produced.
C6_QueueIsShuffleOutput ==
  (PoolStarted /\ mainpc = "launch" /\ traversalOrder = "random") =>
     popped \o urlQueue = shuffled

\* C7: in sequential mode the URLs are shifted in the input order whatever
\* the number of workers; in random mode the shifted URLs and the queued ones
\* are a permutation of the input.
C7_DequeueOrder ==
  PoolStarted =>
    /\ traversalOrder = "sequential" => popped \o urlQueue = input
    /\ traversalOrder = "random" => SameBag(popped \o urlQueue, input)

C7_Witness ==
  /\ traversalOrder = "sequential"
  /\ concurrencyLimit = 2
  /\ input = <<"a", "b">>
  /\ popped = <<"a", "b">>
  /\ pc[0] = "delay"
  /\ url[1] = "b"

\* C8: the counts of statusCounts sum to processed.
C8_HistogramSumsToProcessed ==
  SumOver(statusCounts, DOMAIN statusCounts) = processed

C8_Witness ==
  /\ processed = 2
  /\ DOMAIN statusCounts = {200}
  /\ InFlight = {}

\* C9: never more than concurrencyLimit workers hold a shifted URL that is
\* not yet counted as processed.
C9_AtMostKInFlight ==
  PoolStarted => Cardinality(InFlight) <= concurrencyLimit

C9_Witness ==
  /\ concurrencyLimit = 1
  /\ Cardinality(InFlight) = 1
  /\ Len(urlQueue) = 1
  /\ mainpc = "join"

JoinCompleted ==
  /\ ~errorLogged
  /\ mainpc \in {"settle", "save", "exit", "exited"}

\* The shared state the workers write.
shared == <<urlQueue, processed, statusCounts, non200Urls, parsedUrls, popped, calls,
            progress>>

\* A worker that has returned stays returned, and once every started worker
\* has returned nothing shifts, validates or writes the shared state.
DoneIsFinal ==
  [][/\ \A w \in Slots : pc[w] = "done" =>
           (pc'[w] = "done" /\ url'[w] = url[w] /\ result'[w] = result[w])
     /\ (PoolStarted /\ mainpc # "launch" /\ \A w \in Launched : pc[w] = "done") =>
           UNCHANGED shared]_vars

C12_SaveAfterDrain ==
  /\ []((mainpc = "save" \/ saved.written) =>
          /\ WorkersFinished
          /\ InFlight = {}
          /\ urlQueue = <<>>)
  /\ [](saved.written =>
          (saved.non200Urls = non200Urls /\ saved.parsedUrls = parsedUrls))
  /\ [][(~errorLogged /\ mainpc \in {"settle", "save", "exit", "exited"}) =>
          UNCHANGED <<non200Urls, parsedUrls, statusCounts, processed>>]_vars
  /\ [][mainpc' = "save" => mainpc \in {"settle", "save"}]_vars

C12_Witness ==
  /\ saved.written
  /\ concurrencyLimit = 2
  /\ Len(saved.parsedUrls) = 1
  /\ Len(saved.non200Urls) = 2

\* C13: a failed GET does not abort the run: validateURL returns a record,
\* main, the error log and the other workers are untouched, and the worker
\* then counts the record in processed and in the histogram and starts its
\* request delay, from which it goes back to the queue.
C13_FailureDoesNotAbort ==
  /\ [][\A w \in Slots :
          (pc[w] = "request" /\ pc'[w] # "request" /\ ~AxiosResolves(reply'[w])) =>
             /\ pc'[w] = "validated"
             /\ result'[w] = URLStatus(url[w], IF reply'[w] = NoResponse THEN 500 ELSE reply'[w])
             /\ mainpc' = mainpc
             /\ errorLogged' = errorLogged
             /\ \A v \in Slots \ {w} : pc'[v] = pc[v]]_vars
  /\ [][\A w \in Slots :
          (pc[w] = "validated" /\ pc'[w] # "validated" /\ ~AxiosResolves(reply[w])) =>
             /\ pc'[w] = "delay"
             /\ processed' = processed + 1
             /\ Count(statusCounts', result[w].status) = Count(statusCounts, result[w].status) + 1
             /\ mainpc' = mainpc
             /\ errorLogged' = errorLogged
             /\ \A v \in Slots \ {w} : pc'[v] = pc[v]]_vars
  /\ [][\A w \in Slots :
          (pc[w] = "delay" /\ pc'[w] # "delay" /\ ~isPaused /\ urlQueue # <<>>
             /\ Truthy(Head(urlQueue))) =>
             (pc'[w] = "request" /\ url'[w] = Head(urlQueue))]_vars
  /\ [](PoolStarted => ~errorLogged)

C13_Witness ==
  /\ mainpc = "join"
  /\ Count(statusCounts, 500) = 1
  /\ processed = 1
  /\ non200Urls = <<URLStatus("a", 500)>>
  /\ \E w \in Slots : pc[w] = "request" /\ url[w] = "b"
  /\ \E w \in Slots : pc[w] = "delay"

\* C14: when fetchSitemap fails the run ends at once: no worker is started,
\* validateURL is never called, both lists stay empty, saveResults does not
\* run, the error is logged and exit() runs as after a successful run.
C14_FetchFailureEndsRun ==
  /\ [](errorLogged =>
          /\ mainpc \in {"exit", "exited"}
          /\ Launched = {}
          /\ calls = <<>>
          /\ popped = <<>>
          /\ non200Urls = <<>>
          /\ parsedUrls = <<>>
          /\ ~saved.written)
  /\ [][(mainpc = "fetch" /\ mainpc' \notin {"fetch", "setup"}) =>
          (errorLogged' /\ mainpc' = "exit")]_vars
  /\ [][mainpc' = "exited" => mainpc \in {"exit", "exited"}]_vars

C14_Witness ==
  /\ errorLogged
  /\ mainpc = "exited"

\* C15: the prompts take every concurrency limit from 1 to 15 and every
\* request delay from 250 on, both bounds included, without asking again, and
\* ask again for any other answer.
C15_PromptRanges ==
  [][/\ (mainpc = "ask" /\ prompt = "concurrencyLimit") =>
          ((IsNumeric(answer') /\ NumberOf(answer') >= 1 /\ NumberOf(answer') <= 15)
             <=> (prompt' = "requestDelay" /\ concurrencyLimit' = NumberOf(answer')))
     /\ (mainpc = "ask" /\ prompt = "requestDelay") =>
          ((IsNumeric(answer') /\ NumberOf(answer') >= 250)
             <=> (prompt' = "traversalOrder" /\ requestDelay' = NumberOf(answer')))]_vars

\* C16: a step shifts at most one entry from the queue, and the worker that
\* shifts it had no request and no request delay pending and now starts the
\* validateURL call for it; so between two shifts by one worker lie one
\* validateURL call and one request delay.
C16_OnePopPerThrottledIteration ==
  [][popped' # popped =>
       /\ Len(popped') = Len(popped) + 1
       /\ \E w \in Slots :
            /\ pc[w] \in {"idle", "delay", "pausewait"}
            /\ pc'[w] = "request"
            /\ url'[w] = popped'[Len(popped')]
            /\ calls' = Append(calls, url'[w])]_vars

\* C17: updateProgress is called exactly in the steps that count a result,
\* with the new processed count (1, 2, 3, ... without gap or repeat), the URL
\* and the status of the worker that counts, and the histogram after the
\* update, which sums to the count passed.
C17_ReportPerProcessedUrl ==
  /\ [][/\ (processed' # processed) <=> (progress' # progress)
        /\ processed' # processed =>
             /\ processed' = processed + 1
             /\ progress'.processed = processed + 1
             /\ progress'.total = Len(input)
             /\ progress'.statusCounts = statusCounts'
             /\ SumOver(progress'.statusCounts, DOMAIN progress'.statusCounts)
                  = progress'.processed
             /\ \E w \in Slots :
                  /\ pc[w] = "validated" /\ pc'[w] = "delay"
                  /\ progress'.url = url[w]
                  /\ progress'.status = result[w].status
                  /\ progress'.status = IF AxiosResolves(reply[w]) THEN reply[w]
                                        ELSE IF reply[w] = NoResponse THEN 500
                                        ELSE reply[w]]_vars
  /\ [](progress.processed = processed)
  /\ [](Len(calls) = processed + Cardinality(InFlight))

C17_Witness ==
  /\ progress.processed = 2
  /\ progress.url = "b"
  /\ progress.status = 404
  /\ progress.statusCounts = (200 :> 1) @@ (404 :> 1)
  /\ concurrencyLimit = 2

StatusIs2xx(rec) == AxiosResolves(rec.status)
StatusNot200(rec) == rec.status # 200
StatusNot2xx(rec) == ~AxiosResolves(rec.status)

\* C19: when the pool has finished, non200Urls holds as many records as
\* processed minus the histogram's count for 200; non200Urls never holds a
\* record with status 200; every validated URL has its record in parsedUrls
\* or in non200Urls, and in both exactly when its GET resolved with a code
\* other than 200.
C19_RecordAccounting ==
  /\ WorkersFinished =>
       /\ Len(non200Urls) = processed - Count(statusCounts, 200)
       /\ Len(parsedUrls) + Len(SelectSeq(non200Urls, StatusNot2xx)) = processed
  /\ \A k \in DOMAIN non200Urls : non200Urls[k].status # 200
  /\ PoolStarted =>
       /\ SelectSeq(non200Urls, StatusIs2xx) = SelectSeq(parsedUrls, StatusNot200)
       /\ Len(parsedUrls) + Len(SelectSeq(non200Urls, StatusNot2xx))
            = processed + Cardinality({w \in Slots : pc[w] = "validated"})

C19_Witness ==
  /\ WorkersFinished
  /\ processed = 2
  /\ parsedUrls = <<URLStatus("a", 201)>>
  /\ non200Urls = <<URLStatus("a", 201), URLStatus("b", 500)>>

Requesting == {w \in Slots : pc[w] = "request"}

\* C20: while isPaused stays true the requests in flight still complete, so
\* processed, the histogram and the lists can grow, but no request is added:
\* processed plus the requests in flight stays what it was when the flag was
\* set, each list grows by at most one record per request still awaited, and
\* with nothing in flight nothing changes.
C20_PauseLetsInFlightFinish ==
  [][(isPaused /\ isPaused' /\ PoolStarted) =>
       /\ processed' + Cardinality(InFlight') = processed + Cardinality(InFlight)
       /\ processed' >= processed
       /\ Len(parsedUrls') + Cardinality(Requesting')
            <= Len(parsedUrls) + Cardinality(Requesting)
       /\ Len(non200Urls') + Cardinality(Requesting')
            <= Len(non200Urls) + Cardinality(Requesting)
       /\ SumOver(statusCounts', DOMAIN statusCounts') = processed'
       /\ InFlight = {} =>
            UNCHANGED <<processed, statusCounts, non200Urls, parsedUrls>>]_vars

C20_Witness ==
  /\ isPaused
  /\ urlQueue # <<>>
  /\ \E w \in Slots : pc[w] = "pausewait"
  /\ \E w \in Slots : pc[w] = "validated"
  /\ processed = 0

\* The entries that follow position n of the input, at most PreviewLen of them.
Following(n) ==
  SubSeq(input, n + 1, IF Len(input) < n + PreviewLen THEN Len(input) ELSE n + PreviewLen)

\* C18 as stated: the preview passed to updateProgress is the head of the
\* queue at that moment, at most 5 URLs that no worker has shifted yet, and
\* passing it leaves the queue as it is.
C18_PreviewIsUpcoming ==
  [][progress' # progress =>
       /\ urlQueue' = urlQueue
       /\ Len(progress'.urls) <= 5
       /\ progress'.urls = QueueSlice(urlQueue)
       /\ \A k \in DOMAIN progress'.urls :
            \A j \in DOMAIN popped : popped[j] # progress'.urls[k]]_vars

\* C18 amended: the preview is read, without modifying the queue, right
\* after the worker shifts its URL: at most 5 URLs in queue order, none of
\* them shifted at that time; updateProgress later gets that same list, the
\* entries following the reported URL in the input, whatever other workers
\* have shifted meanwhile.
C18_PreviewIsAsOfPop ==
  /\ [][\A w \in Slots :
          (pc[w] # "request" /\ pc'[w] = "request") =>
             /\ popped' = Append(popped, url'[w])
             /\ urlQueue = <<url'[w]>> \o urlQueue'
             /\ nextUrls'[w] = Following(Len(popped'))
             /\ Len(nextUrls'[w]) <= 5
             /\ Len(urlQueue') <= 5 => nextUrls'[w] = urlQueue'
             /\ \A k \in DOMAIN nextUrls'[w] : nextUrls'[w][k] = urlQueue'[k]]_vars
  /\ [][progress' # progress =>
          /\ urlQueue' = urlQueue
          /\ Len(progress'.urls) <= 5
          /\ \E w \in Slots :
               /\ pc[w] = "validated" /\ pc'[w] = "delay"
               /\ progress'.urls = nextUrls[w]
               /\ \E n \in DOMAIN popped :
                    popped[n] = url[w] /\ progress'.urls = Following(n)]_vars

C18_Witness ==
  /\ progress.url = "u1"
  /\ progress.urls = <<"u2", "u3", "u4", "u5", "u6">>
  /\ popped = <<"u1", "u2">>
  /\ Len(urlQueue) = 5

====
